---- MODULE Spec2Model ----
(***************************************************************************)
(* Hurdle Wordle: the feedback scorer (calculate_hurdle_feedback) and the  *)
(* episode state machine (HurdleWordleEnv.reset / HurdleWordleEnv.step) of *)
(* hurdle_wordle.py.                                                       *)
(*                                                                         *)
(* Strings are sequences of one-character strings.  Rewards are kept in    *)
(* tenths (1.0 is 10, 0.2*g + 0.1*y is 2*g + y) so that they stay integers.*)
(***************************************************************************)
EXTENDS Integers, Sequences, FiniteSets, TLC

VARIABLES
    secret_word,    \* state.game_state["secret_word"]
    guess_history,  \* state.game_state["guess_history"]: <<word, <<greens, yellows>>>>
    done,           \* state.done
    rewards,        \* state.rewards: NoneVal or <<reward of player 0, in tenths>>
    error_count,    \* state.error_count
    outcome,        \* which call ended the episode: "none", "won", "lost", "invalid"
    info,           \* what the last step returned (is_done, info) and emitted
    sc_guess,       \* scorer harness: the guess argument
    sc_secret,      \* scorer harness: the secret argument
    sc_result,      \* scorer harness: NoneVal or the returned <<greens, yellows>>
    completion,     \* reward harness: the transcript, a sequence of messages
    answer,         \* reward harness: the secret word of the transcript
    rw_result       \* reward harness: the function called and the value returned

vars == <<secret_word, guess_history, done, rewards, error_count, outcome, info,
          sc_guess, sc_secret, sc_result, completion, answer, rw_result>>

reward_vars == <<completion, answer, rw_result>>

engine_vars == <<secret_word, guess_history, done, rewards, error_count, outcome, info>>

scorer_vars == <<sc_guess, sc_secret, sc_result>>

\* Python's None (and the empty dict)
NoneVal == <<>>

----------------------------------------------------------------------------
(* Bounds and program constants *)

\* word_length of the modelled episodes (constructor parameter, default 5)
word_length == 2

\* num_guesses of the modelled episodes (constructor parameter, default 8)
num_guesses == 2

\* self.state.error_allowance = 10
ErrorAllowance == 10

\* longest raw action the agent submits: room for "[" + word + "a]"
MaxActionLen == word_length + 3

\* the model stops following an episode once its history holds this many
MaxHistory == num_guesses + 1

\* longest word handed to the scorer harness
MaxScorerLen == 3

\* longest transcript handed to the reward harness (the test transcripts apart)
MaxMessages == 3

----------------------------------------------------------------------------
(* Characters and strings *)

UpperCase == <<"A","B","C","D","E","F","G","H","I","J","K","L","M",
               "N","O","P","Q","R","S","T","U","V","W","X","Y","Z">>

LowerCase == <<"a","b","c","d","e","f","g","h","i","j","k","l","m",
               "n","o","p","q","r","s","t","u","v","w","x","y","z">>

\* str.lower() on one character
lower_char(c) ==
    IF \E k \in 1..26 : UpperCase[k] = c
    THEN LowerCase[CHOOSE k \in 1..26 : UpperCase[k] = c]
    ELSE c

\* str.upper() on one character
upper_char(c) ==
    IF \E k \in 1..26 : LowerCase[k] = c
    THEN UpperCase[CHOOSE k \in 1..26 : LowerCase[k] = c]
    ELSE c

\* str.lower()
lower(s) == [k \in 1..Len(s) |-> lower_char(s[k])]

\* str.upper()
upper(s) == [k \in 1..Len(s) |-> upper_char(s[k])]

\* the regular expression class \w, over the characters of the model
IsWordChar(c) ==
    \/ \E k \in 1..26 : UpperCase[k] = c
    \/ \E k \in 1..26 : LowerCase[k] = c
    \/ c = "_"

Min(a, b) == IF a < b THEN a ELSE b

MinOf(S) == CHOOSE x \in S : \A y \in S : x <= y

\* sequence t occurs in sequence s as a run of consecutive pieces
Contains(s, t) ==
    \E k \in 0..(Len(s) - Len(t)) : \A j \in 1..Len(t) : s[k + j] = t[j]

\* all strings over alphabet cs of length at most n
RECURSIVE StringsUpTo(_, _)
StringsUpTo(cs, n) ==
    IF n = 0 THEN {<<>>}
    ELSE LET shorter == StringsUpTo(cs, n - 1)
         IN shorter \cup {Append(s, c) : s \in shorter, c \in cs}

----------------------------------------------------------------------------
(* calculate_hurdle_feedback *)

\* range(min(len(guess), len(secret))) of the first pass, as 1-based indices
GreenRangeShort(guess, secret) == 1..(Min(Len(guess), Len(secret)) - 1)

GreenRange(guess, secret) == 1..Min(Len(guess), Len(secret))

\* the positions the first pass finds equal
GreenPositions(guess, secret) ==
    {i \in GreenRange(guess, secret) : guess[i] = secret[i]}

\* secret_used after the first pass
GreenSecretUsedNone(guess, secret) == {}

GreenSecretUsed(guess, secret) == GreenPositions(guess, secret)

\* guess_used after the first pass
GreenGuessUsed(guess, secret) == GreenPositions(guess, secret)

\* first pass: count greens, mark both positions used
first_pass_nomark(guess, secret) ==
    [greens      |-> Cardinality(GreenPositions(guess, secret)),
     secret_used |-> {},
     guess_used  |-> {}]

first_pass(guess, secret) ==
    [greens      |-> Cardinality(GreenPositions(guess, secret)),
     secret_used |-> GreenSecretUsed(guess, secret),
     guess_used  |-> GreenGuessUsed(guess, secret)]

\* secret_used[j] = True
ClaimNothing(secret_used, j) == secret_used

ClaimSecret(secret_used, j) == secret_used \cup {j}

\* second pass, from guess position i on: for each guess position that is not
\* a green, claim the lowest unused secret position holding the same letter
RECURSIVE second_pass(_, _, _, _, _, _)
second_pass(guess, secret, guess_used, secret_used, i, yellows) ==
    IF i > Len(guess) THEN yellows
    ELSE IF i \in guess_used
         THEN second_pass(guess, secret, guess_used, secret_used, i + 1, yellows)
         ELSE LET cand == {j \in 1..Len(secret) :
                              j \notin secret_used /\ secret[j] = guess[i]}
              IN IF cand = {}
                 THEN second_pass(guess, secret, guess_used, secret_used,
                                  i + 1, yellows)
                 ELSE second_pass(guess, secret, guess_used,
                                  ClaimSecret(secret_used, MinOf(cand)),
                                  i + 1, yellows + 1)

calculate_hurdle_feedback(guess, secret) ==
    LET g  == lower(guess)
        s  == lower(secret)
        p1 == first_pass(g, s)
    IN <<p1.greens, second_pass(g, s, p1.guess_used, p1.secret_used, 1, 0)>>

----------------------------------------------------------------------------
(* The raw action and re.search(r"\[(\w+)\]", action) *)

\* characters the agent types
Chars == {"[", "]", "a", "B"}

Actions == StringsUpTo(Chars, MaxActionLen)

\* the pattern matches at position i with the group ending at position j
MatchesAt(action, i, j) ==
    /\ action[i] = "["
    /\ j > i
    /\ j < Len(action)
    /\ \A k \in (i + 1)..j : IsWordChar(action[k])
    /\ action[j + 1] = "]"

\* re.search: the leftmost match, None when there is none
re_search(action) ==
    LET starts == {i \in 1..Len(action) :
                      \E j \in 1..Len(action) : MatchesAt(action, i, j)}
    IN IF starts = {}
       THEN [found |-> FALSE, group |-> <<>>]
       ELSE LET i == MinOf(starts)
                j == CHOOSE jj \in 1..Len(action) : MatchesAt(action, i, jj)
            IN [found |-> TRUE, group |-> SubSeq(action, i + 1, j)]

\* every result re.search gives on the actions of the model
Matches == {re_search(a) : a \in Actions}

----------------------------------------------------------------------------
(* The episode state (textarena SinglePlayerState driven by HurdleWordleEnv) *)

\* the words an episode's secret is drawn from
WordList ==
    {[i \in 1..word_length |-> "a"],
     [i \in 1..word_length |-> IF i = word_length THEN "b" ELSE "a"]}

\* WordleEnv._get_percentage_completion, in tenths: the best green count of
\* the history over word_length, counting the "G" marks of each feedback; a
\* hurdle feedback is a pair of integers and holds no "G" mark
get_percentage_completion(history) == 0

\* info["reward"] of an invalid move: state.rewards.get(0, 0.0) if
\* state.rewards else 0.0
invalid_reward_one(rw) == IF rw = NoneVal THEN 10 ELSE rw[1]

invalid_reward(rw) == IF rw = NoneVal THEN 0 ELSE rw[1]

FormatReason == "You tried submitting a word in the wrong format. Please make sure to use squared brackets."

LengthReason == "Your word must be exactly {word_length} letters."

WonReason == "Congratulations! You guessed the word correctly!"

LostReason == "Game over! The word was '{secret_word.upper()}'."

\* word.upper() as the feedback message shows it
msg_word_asis(word) == word

msg_word(word) == upper(word)

\* the feedback message of lines 181, 191 and 200, as a sequence of pieces:
\* "You submitted [WORD].\nFeedback: greens: g, yellows: y" and the tail
feedback_msg(word, fb, tail) ==
    <<"You submitted ", "[">> \o msg_word(word) \o
    <<"]", ".", "\n", "Feedback:", " ", "greens:", " ", ToString(fb[1]),
      ",", " ", "yellows:", " ", ToString(fb[2])>> \o tail

\* the record a step leaves in info
TurnResult(kind, is_done, reward, text, arg, found, group, fb, msg) ==
    [kind       |-> kind,
     message    |-> msg,
     is_done    |-> is_done,
     reward     |-> reward,
     reason     |-> [text |-> text, arg |-> arg],
     found      |-> found,
     group_len  |-> Len(group),
     word       |-> IF found /\ Len(group) = word_length THEN lower(group) ELSE <<>>,
     feedback   |-> fb,
     pre_len    |-> Len(guess_history),
     pre_done   |-> done,
     pre_outcome |-> outcome,
     pre_errors |-> error_count]

\* reset(): a fresh state with a sampled secret, error_allowance = 10
ResetState(w) ==
    /\ secret_word = w
    /\ guess_history = <<>>
    /\ done = FALSE
    /\ rewards = NoneVal
    /\ error_count = 0
    /\ outcome = "none"
    /\ info = [kind |-> "reset", is_done |-> FALSE, reward |-> 0,
               message |-> <<>>, reason |-> [text |-> "", arg |-> <<>>],
               found |-> FALSE, group_len |-> 0, word |-> <<>>,
               feedback |-> <<0, 0>>,
               pre_len |-> 0, pre_done |-> FALSE, pre_outcome |-> "none",
               pre_errors |-> 0]

\* state.set_invalid_move(reward, reason) followed by state.step(): within
\* the allowance the error is counted and the turn repeated; beyond it the
\* episode ends with the given reward
set_invalid_move_strict(ec) == ErrorAllowance > ec + 1

set_invalid_move_allowed(ec) == ErrorAllowance > ec

\* lines 152-158 and 161-167: an invalid move
InvalidMove(kind, text, arg, m) ==
    LET allowed == set_invalid_move_allowed(error_count)
        ec2     == IF allowed THEN error_count + 1 ELSE error_count
        rw2     == IF allowed THEN rewards
                   ELSE <<get_percentage_completion(guess_history)>>
        done2   == IF allowed THEN done ELSE TRUE
    IN /\ error_count' = ec2
       /\ rewards' = rw2
       /\ done' = done2
       /\ outcome' = IF allowed THEN outcome ELSE "invalid"
       /\ info' = TurnResult(kind, done2, invalid_reward(rw2), text, arg,
                             m.found, m.group, <<0, 0>>, <<text>>)
       /\ UNCHANGED <<secret_word, guess_history>>

\* lines 179-206: which branch an accepted guess takes once it is recorded
branch_exhaustion_first(word, secret, hist_len) ==
    IF hist_len >= num_guesses THEN "lost"
    ELSE IF lower(word) = lower(secret) THEN "won"
    ELSE "continue"

branch_no_exhaustion(word, secret, hist_len) ==
    IF lower(word) = lower(secret) THEN "won" ELSE "continue"

branch(word, secret, hist_len) ==
    IF lower(word) = lower(secret) THEN "won"
    ELSE IF hist_len >= num_guesses THEN "lost"
    ELSE "continue"

\* state.step() after a move that was not invalid: a finished episode
\* stays as it is, otherwise the error count starts again
state_step_errors(d, ec) == IF d THEN ec ELSE 0

\* line 205: 0.2 * greens + 0.1 * yellows, in tenths
partial_credit_swapped(fb) == fb[1] + 2 * fb[2]

partial_credit(fb) == 2 * fb[1] + fb[2]

\* lines 172-206: an accepted guess
ValidGuess(word, m) ==
    LET fb    == calculate_hurdle_feedback(word, secret_word)
        hist2 == Append(guess_history, <<word, fb>>)
        b     == branch(word, secret_word, Len(hist2))
    IN /\ guess_history' = hist2
       /\ UNCHANGED secret_word
       /\ IF b = "won"
          THEN /\ done' = TRUE
               /\ rewards' = <<10>>
               /\ outcome' = "won"
               /\ error_count' = state_step_errors(TRUE, error_count)
               /\ info' = TurnResult("won", TRUE, 10, WonReason, <<>>,
                                     m.found, m.group, fb,
                                     feedback_msg(word, fb, <<"\n", WonReason>>))
          ELSE IF b = "lost"
          THEN /\ done' = TRUE
               /\ rewards' = <<0>>
               /\ outcome' = "lost"
               /\ error_count' = state_step_errors(TRUE, error_count)
               /\ info' = TurnResult("lost", TRUE, 0, LostReason,
                                     upper(secret_word), m.found, m.group, fb,
                                     feedback_msg(word, fb,
                                         <<"\n", "Game over! The word was '">>
                                         \o upper(secret_word) \o <<"'.">>))
          ELSE /\ UNCHANGED <<done, rewards, outcome>>
               /\ error_count' = state_step_errors(done, error_count)
               /\ info' = TurnResult("continue", done, partial_credit(fb), "",
                                     <<>>, m.found, m.group, fb,
                                     feedback_msg(word, fb, <<>>))

\* line 161: the length check an extracted word has to pass
length_ok_atmost(word) == Len(word) <= word_length

length_ok(word) == Len(word) = word_length

\* line 160: word = match.group(1).lower()
extract_word_raw(m) == m.group

extract_word(m) == lower(m.group)

\* HurdleWordleEnv.step, from the result m of re.search on the action
step(m) ==
    IF ~m.found
    THEN InvalidMove("format", FormatReason, <<>>, m)
    ELSE LET word == extract_word(m)
         IN IF ~length_ok(word)
            THEN InvalidMove("length", LengthReason, <<word_length>>, m)
            ELSE ValidGuess(word, m)

----------------------------------------------------------------------------
(* The episode specification *)

ScorerIdle ==
    /\ sc_guess = <<>>
    /\ sc_secret = <<>>
    /\ sc_result = NoneVal

RewardIdle ==
    /\ completion = <<>>
    /\ answer = <<>>
    /\ rw_result = [fn |-> "none", value |-> <<0, 1>>]

Init ==
    /\ \E w \in WordList : ResetState(w)
    /\ ScorerIdle
    /\ RewardIdle

\* the agent submits a raw action
Step ==
    /\ Len(guess_history) < MaxHistory
    /\ \E m \in Matches : step(m)
    /\ UNCHANGED scorer_vars
    /\ UNCHANGED reward_vars

\* the orchestrator starts a new episode
Reset ==
    /\ \E w \in WordList :
          /\ secret_word' = w
          /\ guess_history' = <<>>
          /\ done' = FALSE
          /\ rewards' = NoneVal
          /\ error_count' = 0
          /\ outcome' = "none"
          /\ info' = [kind |-> "reset", is_done |-> FALSE, reward |-> 0,
                      message |-> <<>>, reason |-> [text |-> "", arg |-> <<>>],
                      found |-> FALSE, group_len |-> 0, word |-> <<>>,
                      feedback |-> <<0, 0>>,
                      pre_len |-> 0, pre_done |-> FALSE, pre_outcome |-> "none",
               pre_errors |-> 0]
    /\ UNCHANGED scorer_vars
    /\ UNCHANGED reward_vars

Next == Step \/ Reset

Spec == Init /\ [][Next]_vars

----------------------------------------------------------------------------
(* The scorer specification: calculate_hurdle_feedback on bounded inputs *)

ScorerChars == {"a", "b", "A"}

\* the word pairs of the test suite
TestPairs ==
    {<<<<"a","p","p","l","e">>, <<"p","l","a","n","t">>>>,
     <<<<"p","l","a","n","t">>, <<"p","l","a","n","t">>>>,
     <<<<"q","u","e","e","n">>, <<"p","l","a","n","t">>>>,
     <<<<"t","n","a","l","p">>, <<"p","l","a","n","t">>>>,
     <<<<"l","e","v","e","l">>, <<"p","l","a","n","t">>>>,
     <<<<"b","o","o","k","s">>, <<"p","l","a","n","t">>>>}

\* equal-length pairs over ScorerChars, and the test pairs
ScorerInputs ==
    {<<g, s>> \in StringsUpTo(ScorerChars, MaxScorerLen)
                  \X StringsUpTo(ScorerChars, MaxScorerLen) : Len(g) = Len(s)}
    \cup TestPairs

EngineIdle == ResetState([i \in 1..word_length |-> "a"])

ScorerInit ==
    /\ EngineIdle
    /\ \E p \in ScorerInputs : sc_guess = p[1] /\ sc_secret = p[2]
    /\ sc_result = NoneVal
    /\ RewardIdle

\* one call of calculate_hurdle_feedback(sc_guess, sc_secret)
Score ==
    /\ sc_result = NoneVal
    /\ sc_result' = calculate_hurdle_feedback(sc_guess, sc_secret)
    /\ UNCHANGED <<sc_guess, sc_secret>>
    /\ UNCHANGED engine_vars
    /\ UNCHANGED reward_vars

ScorerNext == Score

ScorerSpec == ScorerInit /\ [][ScorerNext]_vars

----------------------------------------------------------------------------
(* One episode as the orchestrator runs it: it hands the agent's next
   submission to step, again and again, until step returns is_done *)

\* lines 150-161: the action passes the format check and the length check
is_valid_match(m) == m.found /\ length_ok(extract_word(m))

\* the agent submits a bracketed word of length word_length
StepValid ==
    /\ ~done
    /\ Len(guess_history) < MaxHistory
    /\ \E m \in Matches : is_valid_match(m) /\ step(m)
    /\ UNCHANGED scorer_vars
    /\ UNCHANGED reward_vars

\* the agent submits something malformed
StepInvalid ==
    /\ ~done
    /\ Len(guess_history) < MaxHistory
    /\ \E m \in Matches : ~is_valid_match(m) /\ step(m)
    /\ UNCHANGED scorer_vars
    /\ UNCHANGED reward_vars

LiveNext == StepInvalid \/ StepValid

\* the episode is not left unfinished: while step has not returned is_done,
\* another submission follows
LiveSpec == Init /\ [][LiveNext]_vars /\ WF_vars(LiveNext)

----------------------------------------------------------------------------
(* The reward functions, on bounded transcripts *)

\* a chat message; its content is a sequence of pieces of text
Assistant(content) == [role |-> "assistant", content |-> content]

User(content) == [role |-> "user", content |-> content]

WelcomeText == "Welcome to Hurdle Wordle!"

\* an assistant turn that gives text inside <guess>...</guess>
GuessTurn(text) == Assistant(<<"<guess>">> \o text \o <<"</guess>">>)

\* "Feedback: greens: g, yellows: y" as the tests write it
FeedbackLine(g, y) ==
    <<"Feedback:", " ", "greens:", " ", ToString(g), ",", " ", "yellows:", " ",
      ToString(y)>>

\* what the agent writes inside the guess tags
GuessTexts ==
    {<<"[", "a", "b", "]">>, <<"[", "a", "B", "]">>, <<"[", "a", "a", "]">>,
     <<"a", "b">>, <<"a", "[", "a", "b", "]">>}

\* the messages the bounded transcripts are made of
MessagePool ==
    {Assistant(<<WelcomeText, " You need to guess...">>)}
    \cup {GuessTurn(t) : t \in GuessTexts}
    \cup {User(FeedbackLine(1, 2)),
          User(feedback_msg(<<"b", "a">>, <<0, 2>>, <<>>)),
          User(feedback_msg(<<"a", "b">>, <<2, 0>>, <<"\n", WonReason>>)),
          User(FeedbackLine(2, 0) \o <<"\n">> \o FeedbackLine(0, 1)),
          User(<<"Feedback:", " ", "greens:", " ", "none">>),
          User(<<FormatReason>>),
          User(<<WonReason>>)}

Plant == <<"p", "l", "a", "n", "t">>

Crane == <<"c", "r", "a", "n", "e">>

\* the transcripts of test_count_turns_reward_func,
\* test_partial_credit_reward_func and test_check_answer_reward_func
TestCompletions ==
    {<<Assistant(<<WelcomeText, " You need to guess...">>),
       GuessTurn(<<"[">> \o Crane \o <<"]">>),
       User(FeedbackLine(0, 1)),
       GuessTurn(<<"[">> \o Plant \o <<"]">>),
       User(<<WonReason>>)>>,
     <<Assistant(<<"You are playing Hurdle Wordle...">>),
       GuessTurn(<<"[">> \o Crane \o <<"]">>),
       User(<<"You submitted ", "[">> \o upper(Crane) \o <<"]", ".", "\n">>
            \o FeedbackLine(1, 2))>>,
     <<GuessTurn(<<"[">> \o Plant \o <<"]">>)>>}

RECURSIVE SeqsUpTo(_, _)
SeqsUpTo(S, n) ==
    IF n = 0 THEN {<<>>}
    ELSE LET shorter == SeqsUpTo(S, n - 1)
         IN shorter \cup {Append(q, x) : q \in shorter, x \in S}

\* the transcripts and answers the reward functions are called with
RewardInputs ==
    ((SeqsUpTo(MessagePool, MaxMessages) \ {<<>>}) \X WordList)
    \cup (TestCompletions \X {Plant, <<"w", "r", "o", "n", "g">>})

\* the messages of a transcript with the given role, in order
RECURSIVE MessagesOf(_, _)
MessagesOf(msgs, role) ==
    IF msgs = <<>> THEN <<>>
    ELSE IF Head(msgs).role = role
         THEN <<Head(msgs)>> \o MessagesOf(Tail(msgs), role)
         ELSE MessagesOf(Tail(msgs), role)

\* the text between <guess> and </guess>, NoneVal without the tags
parse_guess(content) ==
    LET opens  == {i \in 1..Len(content) : content[i] = "<guess>"}
        closes == {i \in 1..Len(content) : content[i] = "</guess>"}
    IN IF opens = {} \/ closes = {} THEN NoneVal
       ELSE SubSeq(content, MinOf(opens) + 1, MinOf(closes) - 1)

\* parser.parse_answer(completion): the guess field of the last assistant
\* message that has one
parse_answer(msgs) ==
    LET am   == MessagesOf(msgs, "assistant")
        with == {i \in 1..Len(am) : parse_guess(am[i].content) # NoneVal}
    IN IF with = {} THEN NoneVal
       ELSE parse_guess(am[CHOOSE i \in with : \A j \in with : j <= i].content)

\* check_answer_reward_func: 1.0 if guess == "[" + answer + "]" else 0.0
check_answer_reward_func(msgs, ans) ==
    IF parse_answer(msgs) = <<"[">> \o ans \o <<"]">> THEN 1 ELSE 0

\* lines 52-55: the assistant messages, less a welcome message in front
num_turns_all(msgs) == Len(MessagesOf(msgs, "assistant"))

num_turns(msgs) ==
    LET am == MessagesOf(msgs, "assistant")
    IN IF Len(am) > 0 /\ Contains(am[1].content, <<WelcomeText>>)
       THEN Len(am) - 1
       ELSE Len(am)

\* count_turns_reward_func: is_correct / (num_turns + 1), as <<num, den>>
count_turns_reward_func(msgs, ans) ==
    <<check_answer_reward_func(msgs, ans), num_turns(msgs) + 1>>

\* int() of a run of digits
IsNumber(piece) == \E n \in 0..20 : ToString(n) = piece

ParseInt(piece) == CHOOSE n \in 0..20 : ToString(n) = piece

IsSpace(piece) == piece \in {" ", "\n"}

\* re.search(label + r"\s*(\d+)", line): the number after the first
\* occurrence of the label that has one, NoneVal when there is none
search_count(line, label) ==
    LET hits == {i \in 1..Len(line) :
                   /\ line[i] = label
                   /\ \E j \in (i + 1)..Len(line) :
                         /\ \A k \in (i + 1)..(j - 1) : IsSpace(line[k])
                         /\ IsNumber(line[j])}
    IN IF hits = {} THEN NoneVal
       ELSE LET i == MinOf(hits)
                j == MinOf({jj \in (i + 1)..Len(line) : ~IsSpace(line[jj])})
            IN <<ParseInt(line[j])>>

\* split("Feedback:")[-1]: what follows the last marker
after_first_feedback(text) ==
    SubSeq(text, MinOf({i \in 1..Len(text) : text[i] = "Feedback:"}) + 1,
           Len(text))

after_last_feedback(text) ==
    LET marks == {i \in 1..Len(text) : text[i] = "Feedback:"}
    IN SubSeq(text, (CHOOSE i \in marks : \A j \in marks : j <= i) + 1,
              Len(text))

\* partial_credit_reward_func, in tenths over 10: 0.2 * greens + 0.1 *
\* yellows of the last user message, 0.0 without a parseable feedback
partial_credit_reward_func(msgs) ==
    LET um   == MessagesOf(msgs, "user")
        text == um[Len(um)].content
    IN IF Contains(text, <<"Feedback:">>)
       THEN LET line == after_last_feedback(text)
                g    == search_count(line, "greens:")
                y    == search_count(line, "yellows:")
            IN IF g # NoneVal /\ y # NoneVal
               THEN <<2 * g[1] + y[1], 10>>
               ELSE <<0, 10>>
       ELSE <<0, 10>>

RewardInit ==
    /\ EngineIdle
    /\ ScorerIdle
    /\ \E p \in RewardInputs : completion = p[1] /\ answer = p[2]
    /\ rw_result = [fn |-> "none", value |-> <<0, 1>>]

\* rubric call of check_answer_reward_func
CheckAnswer ==
    /\ rw_result.fn = "none"
    /\ rw_result' = [fn |-> "check",
                     value |-> <<check_answer_reward_func(completion, answer), 1>>]
    /\ UNCHANGED <<completion, answer>>
    /\ UNCHANGED engine_vars
    /\ UNCHANGED scorer_vars

\* rubric call of count_turns_reward_func
CountTurns ==
    /\ rw_result.fn = "none"
    /\ rw_result' = [fn |-> "turns",
                     value |-> count_turns_reward_func(completion, answer)]
    /\ UNCHANGED <<completion, answer>>
    /\ UNCHANGED engine_vars
    /\ UNCHANGED scorer_vars

\* rubric call of partial_credit_reward_func; a transcript without a user
\* message raises IndexError at line 63 and returns nothing
PartialCredit ==
    /\ rw_result.fn = "none"
    /\ MessagesOf(completion, "user") # <<>>
    /\ rw_result' = [fn |-> "partial",
                     value |-> partial_credit_reward_func(completion)]
    /\ UNCHANGED <<completion, answer>>
    /\ UNCHANGED engine_vars
    /\ UNCHANGED scorer_vars

RewardNext == CheckAnswer \/ CountTurns \/ PartialCredit

RewardSpec == RewardInit /\ [][RewardNext]_vars

----------------------------------------------------------------------------
(* One episode and its correctness reward: the guess text of each assistant
   turn is handed to step, and the rubric rates the transcript once step has
   returned is_done *)

\* the guess texts of the agent: the words of the list in brackets, in lower
\* and in upper case, and a text without brackets
EpisodeActions ==
    {<<"[">> \o w \o <<"]">> : w \in WordList}
    \cup {<<"[">> \o upper(w) \o <<"]">> : w \in WordList}
    \cup {<<"a">>}

\* the dataset row's answer is the secret of the episode
EpisodeInit ==
    /\ \E w \in WordList : ResetState(w) /\ answer = w
    /\ ScorerIdle
    /\ completion = <<>>
    /\ rw_result = [fn |-> "none", value |-> <<0, 1>>]

\* one turn: the guess text goes to step, and the transcript ends with the
\* assistant turn and the environment's message (earlier turns are dropped:
\* parse_answer reads the last assistant message)
Submit ==
    /\ ~done
    /\ Len(guess_history) < MaxHistory
    /\ \E a \in EpisodeActions :
          /\ step(re_search(a))
          /\ completion' = <<GuessTurn(a), User(info'.message)>>
    /\ UNCHANGED <<answer, rw_result>>
    /\ UNCHANGED scorer_vars

\* the episode is over: the rubric calls check_answer_reward_func
Rate ==
    /\ done
    /\ CheckAnswer

EpisodeNext == Submit \/ Rate

EpisodeSpec == EpisodeInit /\ [][EpisodeNext]_vars

----------------------------------------------------------------------------
(* Properties of the episode state machine (checked under Spec) *)

\* the last step was a submit (not a reset)
Submitted == info.kind # "reset"

\* the last submit carried a bracketed word of length word_length
SubmittedWord == Submitted /\ info.found /\ info.group_len = word_length

\* C1: in a non-terminal state, submitting a bracketed word of length L that
\* equals the secret case-insensitively returns is_done = true and reward 1.0
\* on every attempt 1..M, the M-th included (the win check comes before the
\* exhaustion check).
C1_SecretWins ==
    (/\ SubmittedWord
     /\ ~info.pre_done
     /\ info.pre_len < num_guesses
     /\ info.word = lower(secret_word))
    => (info.is_done /\ info.reward = 10)

\* a win on the last attempt, typed in a case that differs from the secret's
C1_Witness ==
    /\ SubmittedWord
    /\ ~info.pre_done
    /\ info.pre_len = num_guesses - 1
    /\ info.word = lower(secret_word)
    /\ secret_word[word_length] = "b"
    /\ info.is_done
    /\ info.reward = 10

\* C2: a bracketed word of the right length that differs from the secret,
\* submitted when exactly M-1 guesses are recorded, returns is_done = true,
\* reward 0.0 and a reason that holds the secret in upper case.
C2_WrongLastGuessLoses ==
    (/\ SubmittedWord
     /\ info.pre_len = num_guesses - 1
     /\ info.word # lower(secret_word))
    => (/\ info.is_done
        /\ info.reward = 0
        /\ info.reason.text = LostReason
        /\ info.reason.arg = upper(secret_word))

C2_Witness ==
    /\ SubmittedWord
    /\ ~info.pre_done
    /\ info.pre_len = num_guesses - 1
    /\ info.word # lower(secret_word)
    /\ info.is_done
    /\ info.reward = 0
    /\ secret_word[word_length] = "b"
    /\ info.reason.arg = upper(secret_word)

\* C3: after any sequence of submit calls, calls made after a terminal
\* outcome included, GuessHistory holds at most M records.
C3_HistoryAtMostM == Len(guess_history) <= num_guesses

\* C4: once the outcome Won or Lost is set, a later submit appends no record
\* and returns no non-terminal turn.
C4_TerminalAbsorbing ==
    (Submitted /\ info.pre_outcome \in {"won", "lost"})
    => (Len(guess_history) = info.pre_len /\ info.is_done)

----------------------------------------------------------------------------
(* Properties of calculate_hurdle_feedback (checked under ScorerSpec) *)

\* the scorer has returned for a pair of equal length
Scored == sc_result # NoneVal /\ Len(sc_guess) = Len(sc_secret)

\* occurrences of letter c in word w
Occurrences(c, w) == Cardinality({i \in 1..Len(w) : w[i] = c})

Letters(w) == {w[i] : i \in 1..Len(w)}

RECURSIVE SumOver(_, _, _)
SumOver(S, g, s) ==
    IF S = {} THEN 0
    ELSE LET c == CHOOSE x \in S : TRUE
         IN Min(Occurrences(c, g), Occurrences(c, s)) + SumOver(S \ {c}, g, s)

\* the sum over letters of min(occurrences in g, occurrences in s)
CommonLetters(g, s) == SumOver(Letters(g) \cup Letters(s), g, s)

\* C7: for guess and secret of equal length L the scorer returns
\* greens >= 0 and yellows >= 0 with greens + yellows <= L.
C7_CountsWithinLength ==
    Scored => (/\ sc_result[1] >= 0
               /\ sc_result[2] >= 0
               /\ sc_result[1] + sc_result[2] <= Len(sc_secret))

\* greens and yellows both present and together the whole length
C7_Witness ==
    /\ Scored
    /\ Len(sc_secret) = MaxScorerLen
    /\ sc_result[1] > 0
    /\ sc_result[2] > 0
    /\ sc_result[1] + sc_result[2] = Len(sc_secret)

\* C8: calculate_hurdle_feedback(secret, secret) = (L, 0).
C8_SelfIsAllGreen ==
    (Scored /\ sc_guess = sc_secret) => sc_result = <<Len(sc_secret), 0>>

\* a secret with a repeated letter scored against itself
C8_Witness ==
    /\ Scored
    /\ sc_guess = sc_secret
    /\ Len(sc_secret) = MaxScorerLen
    /\ Occurrences("a", sc_secret) = 2
    /\ sc_result[1] = MaxScorerLen

\* C9: greens is the number of positions where the letters agree (in any
\* case), and greens + yellows is the sum over letters of min(occurrences in
\* guess, occurrences in secret); for anagrams that sum is L.
C9_MultisetMatch ==
    Scored =>
        LET g == lower(sc_guess)
            s == lower(sc_secret)
        IN /\ sc_result[1] = Cardinality({i \in 1..Len(g) : g[i] = s[i]})
           /\ sc_result[1] + sc_result[2] = CommonLetters(g, s)
           /\ (\A c \in Letters(g) \cup Letters(s) :
                   Occurrences(c, g) = Occurrences(c, s))
              => sc_result[1] + sc_result[2] = Len(g)

\* a letter twice in the guess and once in the secret, not in place
C9_Witness ==
    /\ Scored
    /\ Occurrences("a", lower(sc_guess)) = 2
    /\ Occurrences("a", lower(sc_secret)) = 1
    /\ sc_guess # lower(sc_guess)
    /\ sc_result = <<0, 2>>

\* C10: against "plant" the scorer gives (0,3) for "apple", (0,1) for
\* "queen", (1,4) for "tnalp", (0,1) for "level" and (0,0) for "books".
C10_PlantExamples ==
    (Scored /\ sc_secret = <<"p","l","a","n","t">>) =>
        /\ sc_guess = <<"a","p","p","l","e">> => sc_result = <<0, 3>>
        /\ sc_guess = <<"q","u","e","e","n">> => sc_result = <<0, 1>>
        /\ sc_guess = <<"t","n","a","l","p">> => sc_result = <<1, 4>>
        /\ sc_guess = <<"l","e","v","e","l">> => sc_result = <<0, 1>>
        /\ sc_guess = <<"b","o","o","k","s">> => sc_result = <<0, 0>>

C10_Witness ==
    /\ Scored
    /\ sc_secret = <<"p","l","a","n","t">>
    /\ sc_guess = <<"a","p","p","l","e">>
    /\ sc_result = <<0, 3>>

----------------------------------------------------------------------------
(* Further properties of the episode state machine (checked under Spec) *)

\* the word of the last record of the history
LastGuess == guess_history[Len(guess_history)][1]

\* C11: the outcome is Lost exactly when GuessHistory holds M records and the
\* last recorded guess differs from the secret; Lost is never set with fewer
\* or more than M records, and a wrong M-th guess always sets it.
C11_LostIffExhausted ==
    (outcome = "lost")
    <=> (/\ Len(guess_history) = num_guesses
         /\ LastGuess # lower(secret_word))

C13_AppendOnly ==
    [][(info'.kind # "reset" /\ info'.found /\ info'.group_len = word_length)
       => (/\ guess_history' =
                 Append(guess_history,
                        <<info'.word,
                          calculate_hurdle_feedback(info'.word, secret_word)>>)
           /\ secret_word' = secret_word)]_vars

\* two different accepted guesses, recorded in turn order
C13_Witness ==
    /\ SubmittedWord
    /\ Len(guess_history) = 2
    /\ guess_history[1][1] = <<"a", "a">>
    /\ guess_history[2][1] = info.word
    /\ info.word[1] = "b"
    /\ info.pre_len = 1

\* the last submit was malformed: no bracketed word, or one of another length
Malformed(i) == i.kind # "reset" /\ (~i.found \/ i.group_len # word_length)

C15_MessageFormat ==
    /\ SubmittedWord =>
          LET fb == calculate_hurdle_feedback(info.word, secret_word)
          IN /\ Contains(info.message, <<"[">> \o upper(info.word) \o <<"]">>)
             /\ Contains(info.message,
                         <<"Feedback:", " ", "greens:", " ", ToString(fb[1]),
                           ",", " ", "yellows:", " ", ToString(fb[2])>>)
    /\ Malformed(info) =>
          /\ ~Contains(info.message, <<"Feedback:">>)
          /\ info.reason.text \in {FormatReason, LengthReason}

\* a lose turn whose word was typed with a capital letter
C15_Witness ==
    /\ SubmittedWord
    /\ info.kind = "lost"
    /\ info.word = <<"b", "a">>
    /\ Contains(info.message, <<"[", "B", "A", "]">>)
    /\ Contains(info.message, <<"Feedback:", " ", "greens:", " ", "0",
                                ",", " ", "yellows:", " ", "2">>)

\* C16 as stated: the reward of a format or length violation is the fraction
\* of max_guesses already used, |GuessHistory| / M (0 with no guess made).
C16_InvalidRewardIsFraction ==
    Malformed(info) => info.reward * num_guesses = 10 * info.pre_len

\* C16 amended: in a non-terminal state with error allowance left, the reward
\* of a format or length violation is 0.0 whatever the number of guesses made.
C16_InvalidRewardIsZero ==
    (Malformed(info) /\ ~info.pre_done /\ info.pre_errors < 10)
    => info.reward = 0

\* a malformed submission after one recorded guess
C16_Witness ==
    /\ Malformed(info)
    /\ ~info.pre_done
    /\ info.pre_len = 1
    /\ info.reward = 0

----------------------------------------------------------------------------
(* Properties of the reward functions (checked under RewardSpec) *)

\* the word the engine would take from the transcript's final guess text
FinalGuess ==
    LET m == re_search(parse_answer(completion))
    IN IF m.found THEN extract_word(m) ELSE NoneVal

\* C17: check_answer_reward_func returns 1.0 if the final submitted guess of
\* the transcript equals the secret, and 0.0 otherwise.
C17_CorrectIffSecret ==
    rw_result.fn = "check" =>
        /\ rw_result.value \in {<<0, 1>>, <<1, 1>>}
        /\ rw_result.value = <<1, 1>> <=> FinalGuess = answer

\* the assistant messages that are guessing turns: all of them but a welcome
\* message in front
GuessingTurns ==
    LET am == MessagesOf(completion, "assistant")
    IN {i \in 1..Len(am) :
          ~(i = 1 /\ Contains(am[i].content, <<WelcomeText>>))}

LatestEnvMessage ==
    LET um == MessagesOf(completion, "user")
    IN um[Len(um)].content

\* the latest message's last feedback reads "greens: g, yellows: y"
LatestFeedbackIs(g, y) ==
    LET text  == LatestEnvMessage
        marks == {i \in 1..Len(text) : text[i] = "Feedback:"}
    IN /\ marks # {}
       /\ LET last == CHOOSE i \in marks : \A j \in marks : j <= i
          IN /\ Len(text) >= last + Len(FeedbackLine(g, y)) - 1
             /\ SubSeq(text, last, last + Len(FeedbackLine(g, y)) - 1)
                    = FeedbackLine(g, y)

\* C19: partial_credit_reward_func returns 0.2*greens + 0.1*yellows read from
\* the feedback of the most recent environment message of the transcript (0.4
\* for 'greens: 1, yellows: 2'), and 0.0 when that latest message contains no
\* 'Feedback:' marker, as after a format or length violation.
C19_PartialCredit ==
    rw_result.fn = "partial" =>
        /\ \A g \in 0..5 : \A y \in 0..5 :
              LatestFeedbackIs(g, y) => rw_result.value = <<2 * g + y, 10>>
        /\ LatestFeedbackIs(1, 2) => rw_result.value = <<4, 10>>
        /\ ~Contains(LatestEnvMessage, <<"Feedback:">>)
              => rw_result.value = <<0, 10>>

\* the latest of several environment messages carries two feedback lines, and
\* the reward was read from the last of them
C19_Witness ==
    /\ rw_result.fn = "partial"
    /\ LatestFeedbackIs(0, 1)
    /\ Contains(LatestEnvMessage, FeedbackLine(2, 0))
    /\ rw_result.value = <<1, 10>>
    /\ Len(MessagesOf(completion, "user")) > 1

----------------------------------------------------------------------------
(* Termination of an episode (checked under LiveSpec) *)

----------------------------------------------------------------------------
(* Win and feedback (checked under Spec) *)

\* the last submit was recorded: it won, lost or let the episode continue
Recorded == info.kind \in {"won", "lost", "continue"}

\* the records of the history whose feedback has greens = word_length
AllGreenRecords ==
    {i \in 1..Len(guess_history) : guess_history[i][2][1] = word_length}

\* C21: a turn is a win if and only if the feedback recorded for it is
\* (L, 0); in every reachable state a GuessRecord with greens = L exists only
\* as the last record of a Won episode, and no continue or lose turn ever
\* reports greens = L.
C21_WinIffAllGreen ==
    /\ Recorded => (info.kind = "won" <=> info.feedback = <<word_length, 0>>)
    /\ \A i \in AllGreenRecords :
          i = Len(guess_history) /\ outcome = "won"
    /\ info.kind \in {"continue", "lost"} => info.feedback[1] # word_length

----------------------------------------------------------------------------
(* Symmetry of the scorer (checked under ScorerSpec) *)

\* C22: calculate_hurdle_feedback is symmetric in its arguments for
\* equal-length words: Scorer(guess, secret) = Scorer(secret, guess), even
\* though the yellow pass scans guess positions left to right and claims the
\* lowest unconsumed secret position.
C22_ScorerSymmetric ==
    Scored => sc_result = calculate_hurdle_feedback(sc_secret, sc_guess)

\* two different words of equal length were scored, the guess holding more
\* copies of a letter than the secret, with yellows claimed in the second pass
C22_Witness ==
    /\ Scored
    /\ lower(sc_guess) # lower(sc_secret)
    /\ Occurrences("a", lower(sc_guess)) > Occurrences("a", lower(sc_secret))
    /\ Occurrences("a", lower(sc_secret)) > 0
    /\ sc_result[2] >= 2

----------------------------------------------------------------------------
(* Agreement of outcome and correctness reward (checked under EpisodeSpec) *)

\* C23: the engine's terminal outcome and the aggregator's correctness reward
\* agree for the same final guess: whenever step ends the episode as Won on
\* the bracketed final guess, check_answer_reward_func on that guess returns
\* 1.0, and whenever the episode ends as Lost it returns 0.0, for guesses in
\* any letter case.
C23_OutcomeAgreesWithReward ==
    rw_result.fn = "check" =>
        /\ outcome = "won" => rw_result.value = <<1, 1>>
        /\ outcome = "lost" => rw_result.value = <<0, 1>>

====
